---------------------------- MODULE Spec2Model ----------------------------
(***************************************************************************)
(* Model of the movie recommender: the two aggregator queries of           *)
(* database_utils.py (get_similar_recs, get_all_user_recs), execute_query's *)
(* degrade-to-None behaviour, the st.cache_data memoization layer of       *)
(* app.py and the score combiner inside recommendation().                  *)
(*                                                                         *)
(* Conventions.                                                            *)
(*  - The ratings table is a bag (Bags module) of rows                     *)
(*    [userId, movieId, rating]; the timestamp column is never read by the *)
(*    code and is left out.  Nothing in the code or in the import script   *)
(*    makes (userId, movieId) unique, so a row may occur more than once.    *)
(*  - SQL FLOAT / pandas float64 values are exact rationals <<n, d>> in     *)
(*    lowest terms with d > 0.  IEEE division is correctly rounded and      *)
(*    monotone, so comparisons with the literal 0.1 and comparisons of two *)
(*    quotients agree with the exact ones for counts of this size.          *)
(*  - A DataFrame whose row order is never observed (the outer merge sorts *)
(*    on the key) is a set of rows; the sorted frame and the returned       *)
(*    frame are sequences.                                                  *)
(*  - A value returned by execute_query is [ok, rows]: ok = FALSE is the    *)
(*    None that execute_query returns when the read raised.                 *)
(*  - to_python_type maps a numpy integer to the Python int of the same     *)
(*    value; movie identifiers are integers throughout.                     *)
(***************************************************************************)
EXTENDS Integers, Sequences, FiniteSets, Bags, TLC

\* ------------------------------------------------------------------ bounds
\* Large snapshots: users 1..NumUsers, movies 1..NumMovies.
NumUsers == 10
NumMovies == 11
\* Small snapshots: every bag of at most MaxRows rows over SmallRows.
MaxRows == 3

\* --------------------------------------------------------- program constants
\* "rating" > 4
HighRating == 4
\* combined_recommendations.head(10)
TopN == 10
\* similarity_score > 0.1
NoiseFloor == <<1, 10>>

Movies == 1..NumMovies
\* An identifier no row of either table carries (a movie that does not exist).
UnknownMovie == NumMovies + 1
MovieIds == Movies \cup {UnknownMovie}
\* Ratings at and above the "highly rated" threshold.
RatingValues == {HighRating, HighRating + 1}

\* --------------------------------------------------------------- rationals
RECURSIVE GCD(_, _)
GCD(a, b) == IF b = 0 THEN a ELSE GCD(b, a % b)

\* n / d in lowest terms, n >= 0, d > 0.
Rat(n, d) == LET g == GCD(n, d) IN <<n \div g, d \div g>>

Zero == <<0, 1>>
One == <<1, 1>>

RatLess(a, b) == a[1] * b[2] < b[1] * a[2]
\* a / b for b # 0.
RatDiv(a, b) == Rat(a[1] * b[2], a[2] * b[1])

\* ------------------------------------------------------------------- bags
RECURSIVE SumOver(_, _)
\* Number of rows of bag B (with multiplicity) among the row kinds S.
SumOver(B, S) ==
    IF S = {} THEN 0
    ELSE LET r == CHOOSE x \in S : TRUE
         IN  (IF r \in DOMAIN B THEN B[r] ELSE 0) + SumOver(B, S \ {r})

\* The sub-bag of B on the row kinds satisfying S.
Restrict(B, S) == [r \in (DOMAIN B) \cap S |-> B[r]]

Row(u, g, r) == [userId |-> u, movieId |-> g, rating |-> r]

\* WHERE "rating" > 4
HighRows(R) == {r \in DOMAIN R : r.rating > HighRating}

\* None, as returned by execute_query when the read raised.
None == [ok |-> FALSE, rows |-> {}]
Frame(rows) == [ok |-> TRUE, rows |-> rows]

\* execute_query: the query's rows, or None when the database raised.
execute_query(raised, rows) == IF raised THEN None ELSE Frame(rows)

\* ---------------------------------------------------------------- queries
\* Mutant of SeedRows: the `AND "rating" > 4` of the seed subquery is missing.
SeedRows_any_rating(R, m) == {r \in DOMAIN R : r.movieId = m}

\* Mutant of SeedRows: `"rating" >= 4` in the seed subquery.
SeedRows_at_threshold(R, m) == {r \in DOMAIN R : r.movieId = m /\ r.rating >= HighRating}

\* SELECT ... FROM ratings WHERE "movieId" = :movie_id AND "rating" > 4:
\* the seed rating events, as row kinds of R (each with its multiplicity).
SeedRows(R, m) == {r \in HighRows(R) : r.movieId = m}

\* get_similar_recs(movieId); `down` is the database raising on this read.
get_similar_recs(R, m, down) ==
    LET seed == SeedRows(R, m)
        \* SELECT count("userId") FROM ratings WHERE movieId = m AND rating > 4
        total == SumOver(R, seed)
        seed_users == {r.userId : r \in seed}
        \* WHERE "rating" > 4 AND "userId" in (seed users)
        rows == {r \in HighRows(R) : r.userId \in seed_users}
        \* GROUP BY "movieId"
        groups == {r.movieId : r \in rows}
        similarity_calculations ==
            {[movieId |-> g,
              similarity_score |->
                  Rat(SumOver(R, {r \in rows : r.movieId = g}), total)]
                : g \in groups}
    IN  \* a group divided by a count of 0 is the database's division by zero
        IF down \/ (groups # {} /\ total = 0)
        THEN execute_query(TRUE, {})
        ELSE execute_query(FALSE,
                 {s \in similarity_calculations :
                      RatLess(NoiseFloor, s.similarity_score)})

\* Mutant of having: HAVING COUNT(r."userId") > 1.
having_more_than_one(user_count) == user_count > 1

\* HAVING COUNT(r."userId") > 0
having(user_count) == user_count > 0

RECURSIVE JoinCount(_, _, _)
\* COUNT over ratings r INNER JOIN frequent_users fu ON r.userId = fu.userId:
\* every rating row once per frequent_users row of its user (fu[u] of them).
JoinCount(R, fu, S) ==
    IF S = {} THEN 0
    ELSE LET r == CHOOSE x \in S : TRUE
         IN  R[r] * fu[r.userId] + JoinCount(R, fu, S \ {r})

\* get_all_user_recs(movieId): the bag of retained rating events.
get_all_user_recs(R, m, down) ==
    LET seed == SeedRows(R, m)
        seed_users == {r.userId : r \in seed}
        \* frequent_users: one row per seed rating event
        frequent_users ==
            [u \in seed_users |-> SumOver(R, {r \in seed : r.userId = u})]
        \* SELECT COUNT(*) FROM frequent_users
        total == SumOver(R, seed)
        joined == {r \in HighRows(R) : r.userId \in seed_users}
        groups == {r.movieId : r \in joined}
        \* movie_counts
        movie_counts ==
            {c \in {[movieId |-> g,
                     user_count |->
                         JoinCount(R, frequent_users, {r \in joined : r.movieId = g})]
                       : g \in groups} : having(c.user_count)}
        similar_movies ==
            {c.movieId : c \in {x \in movie_counts :
                                  RatLess(NoiseFloor, Rat(x.user_count, total))}}
    IN  IF down \/ (groups # {} /\ total = 0)
        THEN [ok |-> FALSE, rows |-> EmptyBag]
        ELSE [ok |-> TRUE,
              rows |-> Restrict(R, {r \in HighRows(R) : r.movieId \in similar_movies})]

\* get_movies: SELECT * FROM movies.
get_movies(M, down) == execute_query(down, M)

\* ---------------------------------------------------------------- combiner
MovieIdsOf(rows) == {r.movieId : r \in rows}

\* len(all_users["userId"].unique())
unique_users(E) == {r.userId : r \in DOMAIN E}

\* Mutant of all_user_recs: divides by len(all_users), the number of events.
all_user_recs_per_event(E) ==
    LET events == SumOver(E, DOMAIN E)
    IN  {[movieId |-> g,
          count |-> Rat(SumOver(E, {r \in DOMAIN E : r.movieId = g}), events)]
            : g \in {r.movieId : r \in DOMAIN E}}

\* all_users["movieId"].value_counts() / len(all_users["userId"].unique()),
\* reset_index, columns = ['movieId', 'count'].
all_user_recs(E) ==
    LET users == Cardinality(unique_users(E))
    IN  {[movieId |-> g,
          count |-> Rat(SumOver(E, {r \in DOMAIN E : r.movieId = g}), users)]
            : g \in MovieIdsOf(DOMAIN E)}

\* The column value of the row of `rows` with this movieId, or 0 (fillna(0)).
SimilarityOf(rows, g) ==
    IF \E r \in rows : r.movieId = g
    THEN (CHOOSE r \in rows : r.movieId = g).similarity_score ELSE Zero
CountOf(rows, g) ==
    IF \E r \in rows : r.movieId = g
    THEN (CHOOSE r \in rows : r.movieId = g).count ELSE Zero

\* Mutant of Score: divides by max(count, 1).
Score_max(similarity_score, count) ==
    RatDiv(similarity_score, IF RatLess(count, One) THEN One ELSE count)

\* similarity_score / count.replace(0, 1)
Score(similarity_score, count) ==
    RatDiv(similarity_score, IF count = Zero THEN One ELSE count)

\* pd.merge(similar_user_recs, all_user_recs, on='movieId', how='outer'),
\* fillna(0), and the score column.
merge_outer(S, A) ==
    {LET similarity_score == SimilarityOf(S, g)
         count == CountOf(A, g)
     IN  [movieId |-> g,
          similarity_score |-> similarity_score,
          count |-> count,
          score |-> Score(similarity_score, count)]
        : g \in MovieIdsOf(S) \cup MovieIdsOf(A)}

\* Mutant of Precedes: sort_values("score") without ascending=False.
Precedes_ascending(a, b, ties) ==
    \/ a.score[1] * b.score[2] < b.score[1] * a.score[2]
    \/ /\ a.score = b.score
       /\ IF ties = "asc" THEN a.movieId < b.movieId ELSE a.movieId > b.movieId

\* The order sort_values gives two rows: by score, descending.  The sort is
\* not stable, so rows of equal score come in an order the build decides:
\* here by movieId, ascending or descending (the outer merge leaves the frame
\* sorted on movieId).
Precedes(a, b, ties) ==
    \/ RatLess(b.score, a.score)
    \/ /\ a.score = b.score
       /\ IF ties = "asc" THEN a.movieId < b.movieId ELSE a.movieId > b.movieId

RECURSIVE sort_values(_, _)
sort_values(rows, ties) ==
    IF rows = {} THEN <<>>
    ELSE LET first == CHOOSE a \in rows : \A b \in rows \ {a} : Precedes(a, b, ties)
         IN  <<first>> \o sort_values(rows \ {first}, ties)

\* DataFrame.head(n)
head(frame, n) == SubSeq(frame, 1, IF Len(frame) < n THEN Len(frame) ELSE n)

RECURSIVE merge_inner(_, _)
\* pd.merge(left, movies, on="movieId"): the rows of `left`, in order, that
\* have a movies row, with its title (movies has one row per movieId).
merge_inner(left, M) ==
    IF left = <<>> THEN <<>>
    ELSE LET l == Head(left)
             hit == {mv \in M : mv.movieId = l.movieId}
         IN  (IF hit = {} THEN <<>>
              ELSE <<[movieId |-> l.movieId,
                      similarity_score |-> l.similarity_score,
                      count |-> l.count,
                      score |-> l.score,
                      title |-> (CHOOSE mv \in hit : TRUE).title]>>)
             \o merge_inner(Tail(left), M)

\* Lines 35-40 of recommendation: merge, score, sort.
combine(S, E, ties) ==
    LET popularity == all_user_recs(E)
        merged == merge_outer(S, popularity)
    IN  sort_values(merged, ties)

\* ------------------------------------------------------------------ state
VARIABLES
    ratings,                    \* the ratings table: a bag of rating rows
    movies,                     \* the movies table: a set of [movieId, title]
    sort_ties,                  \* how this build's sort orders equal scores
    cache_similar,              \* st.cache_data of get_cached_similar_recs
    cache_all_users,            \* st.cache_data of get_cached_all_user_recs
    cache_movies,               \* st.cache_data of load_movies
    served,                     \* recommendation has returned at least once
    movie_id,                   \* the argument of the last call
    combined_recommendations,   \* the sorted merged frame of the last call
    results,                    \* what the last call returned
    error,                      \* the last call ended in its except branch
    imported                    \* a table has been replaced since the start

vars == <<ratings, movies, sort_ties, cache_similar, cache_all_users,
          cache_movies, served, movie_id, combined_recommendations,
          results, error, imported>>

\* The three data sources a call may read.
Sources == {"similar", "all_users", "movies"}
\* The key of a function cached without arguments.
NoArgs == <<>>

\* ---------------------------------------------------------------- snapshots
TitleOf(g) == <<"title", g>>
MoviesTable(ids) == {[movieId |-> g, title |-> TitleOf(g)] : g \in ids}
\* Movies that may be missing from the movies table.
Unlisted == {1, 2}
MovieTables == {MoviesTable(Movies \ S) : S \in SUBSET Unlisted}

SmallRows == {Row(u, g, r) : u \in 1..2, g \in 1..2, r \in RatingValues}
AsBag(f) == [r \in {x \in DOMAIN f : f[x] > 0} |-> f[r]]
SmallTables ==
    {AsBag(f) : f \in {h \in [SmallRows -> 0..MaxRows] : SumOver(h, SmallRows) <= MaxRows}}

\* k users; user u rated every movie g >= u highly and movie u - 1 at the
\* threshold; the rows of movie dup are stored twice.
Staircase(k, dup) ==
    LET rows == {Row(u, g, HighRating + 1) : u \in 1..k, g \in Movies}
                \cup {Row(u, u - 1, HighRating) : u \in 1..k}
        kept == {r \in rows : r.movieId \in Movies
                              /\ (r.rating > HighRating => r.movieId >= r.userId)}
    IN  [r \in kept |-> IF r.movieId = dup /\ r.rating > HighRating THEN 2 ELSE 1]
Staircases == {Staircase(k, dup) : k \in (NumUsers - 1)..NumUsers, dup \in 0..NumMovies}

\* -------------------------------------------------------- memoization layer
\* st.cache_data: the stored value on a hit, the computed one on a miss.
cached(cache, key, computed) == IF key \in DOMAIN cache THEN cache[key] ELSE computed
store(cache, key, value) == IF key \in DOMAIN cache THEN cache ELSE (key :> value) @@ cache
expire(cache, key) == [k \in (DOMAIN cache) \ {key} |-> cache[k]]

get_cached_similar_recs(m, down) ==
    cached(cache_similar, m, get_similar_recs(ratings, m, "similar" \in down))
get_cached_all_user_recs(m, down) ==
    cached(cache_all_users, m, get_all_user_recs(ratings, m, "all_users" \in down))
load_movies(down) ==
    cached(cache_movies, NoArgs, get_movies(movies, "movies" \in down))

\* ---------------------------------------------------------- recommendation
\* Mutant of merges: a None similar_user_recs is taken for an empty frame.
merges_none_as_empty(similar_user_recs, all_users) ==
    /\ all_users.ok
    /\ DOMAIN all_users.rows # {}

\* `if not all_users.empty` and the outer merge both go through: all_users
\* is a non-empty frame and similar_user_recs is a frame.  On None the first
\* raises AttributeError and the second TypeError, both caught at line 48.
merges(similar_user_recs, all_users) ==
    /\ all_users.ok
    /\ DOMAIN all_users.rows # {}
    /\ similar_user_recs.ok

\* The except branch is taken before load_movies is reached.
raises(similar_user_recs, all_users) ==
    \/ ~all_users.ok
    \/ DOMAIN all_users.rows # {} /\ ~similar_user_recs.ok

\* Mutant of titled: the join with movies comes before head(10).
titled_join_first(sorted, M) == head(merge_inner(sorted, M), TopN)

\* pd.merge(combined_recommendations.head(10), load_movies(), on="movieId")
titled(sorted, M) == merge_inner(head(sorted, TopN), M)

\* recommendation(movie_id), the reads named in `down` raising inside
\* execute_query.
Recommendation(m, down) ==
    LET similar_user_recs == get_cached_similar_recs(m, down)
        all_users == get_cached_all_user_recs(m, down)
        merged == merges(similar_user_recs, all_users)
        sorted == IF merged
                  THEN combine(similar_user_recs.rows, all_users.rows, sort_ties)
                  ELSE <<>>
        catalogue == load_movies(down)
    IN  /\ movie_id' = m
        /\ served' = TRUE
        /\ cache_similar' = store(cache_similar, m, similar_user_recs)
        /\ cache_all_users' = store(cache_all_users, m, all_users)
        /\ cache_movies' = IF merged THEN store(cache_movies, NoArgs, catalogue)
                           ELSE cache_movies
        /\ combined_recommendations' = sorted
        /\ results' = IF merged /\ catalogue.ok
                      THEN titled(sorted, catalogue.rows)
                      ELSE <<>>
        /\ error' = (raises(similar_user_recs, all_users)
                     \/ (merged /\ ~catalogue.ok))
        /\ UNCHANGED <<ratings, movies, sort_ties, imported>>

\* A cache entry reaching its ttl.
ExpireSimilar(m) ==
    /\ m \in DOMAIN cache_similar
    /\ cache_similar' = expire(cache_similar, m)
    /\ UNCHANGED <<ratings, movies, sort_ties, cache_all_users, cache_movies,
                   served, movie_id, combined_recommendations, results, error,
                   imported>>

ExpireAllUsers(m) ==
    /\ m \in DOMAIN cache_all_users
    /\ cache_all_users' = expire(cache_all_users, m)
    /\ UNCHANGED <<ratings, movies, sort_ties, cache_similar, cache_movies,
                   served, movie_id, combined_recommendations, results, error,
                   imported>>

ExpireMovies ==
    /\ NoArgs \in DOMAIN cache_movies
    /\ cache_movies' = expire(cache_movies, NoArgs)
    /\ UNCHANGED <<ratings, movies, sort_ties, cache_similar, cache_all_users,
                   served, movie_id, combined_recommendations, results, error,
                   imported>>

\* Rows of the tables a session runs on, each stored at most once.
SessionTables ==
    {Row(1, 1, HighRating + 1) :> 1,
     Row(1, 1, HighRating + 1) :> 1 @@ Row(1, 2, HighRating + 1) :> 1
         @@ Row(2, 2, HighRating + 1) :> 1}
SessionMovieTables == {MoviesTable(Movies), MoviesTable(Movies \ {2})}
SessionTargets == {1, 2}

\* import_csv_to_postgres, one csv file per step: to_sql(if_exists='replace').
ImportRatings ==
    /\ ratings' \in SessionTables \ {ratings}
    /\ imported' = TRUE
    /\ UNCHANGED <<movies, sort_ties, cache_similar, cache_all_users, cache_movies,
                   served, movie_id, combined_recommendations, results, error>>

ImportMovies ==
    /\ movies' \in SessionMovieTables \ {movies}
    /\ imported' = TRUE
    /\ UNCHANGED <<ratings, sort_ties, cache_similar, cache_all_users, cache_movies,
                   served, movie_id, combined_recommendations, results, error>>

\* ------------------------------------------------------------ specifications
Idle ==
    /\ cache_similar = <<>>
    /\ cache_all_users = <<>>
    /\ cache_movies = <<>>
    /\ served = FALSE
    /\ movie_id = UnknownMovie
    /\ combined_recommendations = <<>>
    /\ results = <<>>
    /\ error = FALSE
    /\ imported = FALSE

\* The first request of a fresh process, on each snapshot, the reads succeeding.
InitSnapshot ==
    /\ ratings \in SmallTables \cup Staircases
    /\ movies \in MovieTables
    /\ sort_ties \in {"asc", "desc"}
    /\ Idle

FirstRequest == \E m \in MovieIds : ~served /\ Recommendation(m, {})

SpecSnapshot == InitSnapshot /\ [][FirstRequest]_vars


\* A session: requests, reads that may raise, entries expiring, tables replaced.
Init ==
    /\ ratings \in SessionTables
    /\ movies \in SessionMovieTables
    /\ sort_ties \in {"asc", "desc"}
    /\ Idle

Next ==
    \/ \E m \in SessionTargets, down \in SUBSET Sources : Recommendation(m, down)
    \/ \E m \in SessionTargets : ExpireSimilar(m)
    \/ \E m \in SessionTargets : ExpireAllUsers(m)
    \/ ExpireMovies
    \/ ImportRatings
    \/ ImportMovies

Spec == Init /\ [][Next]_vars

\* ------------------------------------------------------------------ claims
\* The properties below are stated on the tables and on what the last call
\* left behind, without the operators of the model, so that they hold only
\* if the model's computation is the one they describe.

Rows(frame) == {frame[i] : i \in 1..Len(frame)}
Ids(frame) == [i \in 1..Len(frame) |-> frame[i].movieId]

\* Users with a rating above the threshold on movie m: the seed cohort.
Cohort(m) ==
    {r.userId : r \in {x \in DOMAIN ratings : x.movieId = m /\ x.rating > HighRating}}
\* No rating event above the threshold on movie m.
NoHighRating(m) == \A r \in DOMAIN ratings : r.movieId = m => r.rating <= HighRating
\* Each (userId, movieId) pair has at most one rating event.
UniquePairs ==
    /\ \A r \in DOMAIN ratings : ratings[r] = 1
    /\ \A a, b \in DOMAIN ratings :
           a.userId = b.userId /\ a.movieId = b.movieId => a = b

\* What the two aggregator queries gave the last call (a fresh process keeps
\* both entries: nothing expires in SpecSnapshot).
LastSimilar == cache_similar[movie_id]
LastEvents == cache_all_users[movie_id]

\* The number of rating events of movie g in the bag E.
EventsOf(E, g) == BagCardinality([r \in {x \in DOMAIN E : x.movieId = g} |-> E[r]])
UsersOf(E) == {r.userId : r \in DOMAIN E}

\* q = a / b for rationals a, b with b # 0, by cross-multiplication.
IsQuotient(q, a, b) == q[1] * a[2] * b[1] = a[1] * b[2] * q[2]
\* q = n / d for integers n, d with d # 0.
IsFraction(q, n, d) == q[1] * d = n * q[2]

\* C1: when the target's seed cohort is not empty, recommendation returns at
\* most 10 rows, in non-increasing order of score, no movieId twice.
AtMostTenSortedDistinct ==
    (served /\ Cohort(movie_id) # {}) =>
        /\ Len(results) <= 10
        /\ \A i \in 1..(Len(results) - 1) :
               results[i + 1].score[1] * results[i].score[2]
                   <= results[i].score[1] * results[i + 1].score[2]
        /\ \A i, j \in 1..Len(results) :
               i # j => results[i].movieId # results[j].movieId

\* C1 witness: more than 10 scored movies, 10 returned, scores not all equal.
TruncatedRanking ==
    /\ served
    /\ Cohort(movie_id) # {}
    /\ Len(combined_recommendations) > 10
    /\ Len(results) = 10
    /\ results[1].score # results[10].score

\* C2: a movie identifier with no rating above 4 (a movie that does not exist
\* included) makes both queries return empty frames, not None, and
\* recommendation return an empty result outside its except branch.
NoCohortGivesEmpty ==
    (served /\ NoHighRating(movie_id)) =>
        /\ LastSimilar.ok /\ LastSimilar.rows = {}
        /\ LastEvents.ok /\ DOMAIN LastEvents.rows = {}
        /\ results = <<>>
        /\ ~error

\* C2 witness: the target is rated, but never above the threshold, while its
\* raters rated other movies highly.
RatedOnlyAtThreshold ==
    /\ served
    /\ NoHighRating(movie_id)
    /\ \E r \in DOMAIN ratings :
           /\ r.movieId = movie_id
           /\ \E h \in DOMAIN ratings : h.userId = r.userId /\ h.rating > HighRating

\* C6: with a non-empty seed cohort, every affinity get_similar_recs returns
\* is in [0, 1], is the number of distinct cohort users who rated the movie
\* above 4 over the number of distinct cohort users, and exceeds 0.1.
AffinityIsCohortFraction ==
    (served /\ Cohort(movie_id) # {}) =>
        \A s \in LastSimilar.rows :
            /\ s.similarity_score[1] <= s.similarity_score[2]
            /\ IsFraction(s.similarity_score,
                          Cardinality(Cohort(movie_id) \cap Cohort(s.movieId)),
                          Cardinality(Cohort(movie_id)))
            /\ s.similarity_score[1] * 10 > s.similarity_score[2]

\* C7: every returned row is a movie of the movies table, with its title; the
\* returned movieIds are those of the first 10 rows of the sorted frame that
\* the movies table lists, in that order.
ReturnedAreListedTopTen ==
    served =>
        LET n == IF Len(combined_recommendations) < 10
                 THEN Len(combined_recommendations) ELSE 10
            top == [i \in 1..n |-> combined_recommendations[i]]
            Listed(g) == \E mv \in movies : mv.movieId = g
        IN  /\ \A i \in 1..Len(results) :
                   \E mv \in movies :
                       mv.movieId = results[i].movieId /\ mv.title = results[i].title
            /\ Ids(results) = SelectSeq(Ids(top), Listed)
            /\ \A i \in 1..Len(results) :
                   \E j \in 1..n : /\ top[j].movieId = results[i].movieId
                                   /\ top[j].score = results[i].score

\* C7 witness: a movie among the first 10 is not listed and is dropped, and a
\* listed movie ranked below the 10th is not returned in its place.
DroppedNotReplaced ==
    /\ served
    /\ Len(combined_recommendations) > 10
    /\ \E i \in 1..10 :
           \A mv \in movies : mv.movieId # combined_recommendations[i].movieId
    /\ \E j \in 11..Len(combined_recommendations) :
           /\ \E mv \in movies : mv.movieId = combined_recommendations[j].movieId
           /\ \A i \in 1..Len(results) :
                  results[i].movieId # combined_recommendations[j].movieId
    /\ Len(results) = 9

\* The popularity of movie g in the event rows E: its events over the
\* distinct users of E, as numerator and denominator.
PopularityIsZero(E, g) == EventsOf(E, g) = 0
PopularityBelowOne(E, g) == EventsOf(E, g) < Cardinality(UsersOf(E))

\* C8 as stated: score = affinity / max(popularity, 1), popularity being the
\* movie's retained events over the distinct users of the retained events.
ScoreDividesByMaxOfPopularityAndOne ==
    served =>
        \A row \in Rows(combined_recommendations) :
            IF PopularityBelowOne(LastEvents.rows, row.movieId)
            THEN row.score = row.similarity_score
            ELSE row.score[1] * row.similarity_score[2] * EventsOf(LastEvents.rows, row.movieId)
                     = row.similarity_score[1] * Cardinality(UsersOf(LastEvents.rows))
                           * row.score[2]

\* C8 amended: score = affinity / popularity, and affinity itself when the
\* popularity is 0; popularity is the movie's retained events over the
\* distinct users of the retained events.
ScoreDividesByNonzeroPopularity ==
    served =>
        \A row \in Rows(combined_recommendations) :
            IF PopularityIsZero(LastEvents.rows, row.movieId)
            THEN row.score = row.similarity_score
            ELSE row.score[1] * row.similarity_score[2] * EventsOf(LastEvents.rows, row.movieId)
                     = row.similarity_score[1] * Cardinality(UsersOf(LastEvents.rows))
                           * row.score[2]

\* C8 witness: a movie with affinity above 0 and popularity below 1, scored
\* above its affinity.
PopularityBelowOneRaisesScore ==
    /\ served
    /\ \E row \in Rows(combined_recommendations) :
           /\ PopularityBelowOne(LastEvents.rows, row.movieId)
           /\ row.similarity_score # Zero
           /\ row.similarity_score[1] * row.score[2]
                  < row.score[1] * row.similarity_score[2]

\* C9: every movie with an affinity from get_similar_recs has event rows from
\* get_all_user_recs, so no merged row has affinity above 0 with popularity 0
\* and a movie with an affinity is scored affinity / popularity.
AffinityImpliesPopularity ==
    served =>
        /\ \A s \in LastSimilar.rows : \E e \in DOMAIN LastEvents.rows : e.movieId = s.movieId
        /\ \A row \in Rows(combined_recommendations) :
               row.similarity_score # Zero =>
                   /\ row.count # Zero
                   /\ IsQuotient(row.score, row.similarity_score, row.count)

\* C9 witness: a table with a rating stored twice, where the JOIN-based filter
\* keeps a movie the IN-based one drops.
JoinKeepsMoreThanIn ==
    /\ served
    /\ \E r \in DOMAIN ratings : ratings[r] > 1
    /\ LastSimilar.rows # {}
    /\ \E e \in DOMAIN LastEvents.rows :
           \A s \in LastSimilar.rows : s.movieId # e.movieId

FailedReadGivesEmpty ==
    served =>
        /\ error => results = <<>>
        /\ (movie_id \in DOMAIN cache_similar /\ ~cache_similar[movie_id].ok)
               => results = <<>>
        /\ (movie_id \in DOMAIN cache_all_users /\ ~cache_all_users[movie_id].ok)
               => results = <<>>
        /\ (NoArgs \in DOMAIN cache_movies /\ ~cache_movies[NoArgs].ok)
               => results = <<>>

\* C3 witness: the similar-user read failed while the cohort events are there
\* to be merged, and the call ended in the except branch.
SimilarReadFailed ==
    /\ served
    /\ error
    /\ movie_id \in DOMAIN cache_similar /\ ~cache_similar[movie_id].ok
    /\ movie_id \in DOMAIN cache_all_users
    /\ cache_all_users[movie_id].ok
    /\ DOMAIN cache_all_users[movie_id].rows # {}

\* What recommendation computes from the tables themselves, its reads
\* succeeding.
Uncached(m) ==
    LET similar_user_recs == get_similar_recs(ratings, m, FALSE)
        all_users == get_all_user_recs(ratings, m, FALSE)
    IN  IF DOMAIN all_users.rows = {} THEN <<>>
        ELSE titled(combine(similar_user_recs.rows, all_users.rows, sort_ties), movies)

\* C4: while the tables do not change, a call returns the same ordered
\* result whether it recomputes or is served from the memoization layer:
\* nothing an earlier call stored changes what a call whose own reads
\* succeed returns.
MemoizedEqualsRecomputed ==
    [][((\E m \in SessionTargets : Recommendation(m, {})) /\ ~imported')
           => results' = Uncached(movie_id')]_vars

\* C5: in every merged row the score is affinity / popularity when the
\* popularity is not 0 and the affinity itself when it is 0 (so 0 for
\* affinity 0); affinity 0.6 over popularity 0.3 scores 2.
ScoreIsAffinityOverPopularity ==
    /\ \A row \in Rows(combined_recommendations) :
           /\ row.count # Zero => IsQuotient(row.score, row.similarity_score, row.count)
           /\ row.count = Zero => row.score = row.similarity_score
           /\ (row.count = Zero /\ row.similarity_score = Zero) => row.score = Zero
    /\ Score(<<3, 5>>, <<3, 10>>) = <<2, 1>>

\* C5 witness: a merged frame with a row of popularity 0 and affinity above
\* 0 and a row of popularity above 0.
ZeroAndNonzeroPopularity ==
    /\ served
    /\ \E row \in Rows(combined_recommendations) :
           row.count = Zero /\ row.similarity_score # Zero
    /\ \E row \in Rows(combined_recommendations) :
           row.count # Zero /\ row.similarity_score # Zero

=============================================================================
